---- MODULE Spec2Model ----
(***************************************************************************)
(* Model of the event broadcast core of remote_mcp/event_manager.py: the   *)
(* ConnectionPool registry, EventManager.emit with its fan-out delivery    *)
(* tasks, and the consumers that drain a connection's queue.               *)
(*                                                                         *)
(* Scheduling is asyncio's: one task runs at a time and is only suspended  *)
(* at an await that really waits.  ConnectionPool._lock is never held      *)
(* across such an await, so acquiring it never waits and every pool method *)
(* runs as one step.                                                       *)
(***************************************************************************)
EXTENDS Integers, Sequences, FiniteSets, TLC

(***************************************************************************)
(* Bounds of the model.  The capacities of EventConfig are scaled down so  *)
(* that a full registry, a full queue and an exhausted rate budget are     *)
(* reached; MAX_RETRY_ATTEMPTS keeps its value.                            *)
(***************************************************************************)
MAX_CONNECTIONS == 2
MAX_QUEUE_SIZE == 2
RATE_LIMIT_EVENTS == 3
RATE_LIMIT_WINDOW == 0
MAX_RETRY_ATTEMPTS == 3
MaxTime == 1
MaxIdleArg == 0
MAX_EVENT_HISTORY == 2
MaxEmits == 3
MaxBroadcasts == 2
EVENT_TTL == 1
MaxRefs == 3
MaxTasks == 3

\* EventPriority
LOW == 0
NORMAL == 1
HIGH == 2
CRITICAL == 3

ConnIds == {"c1", "c2", "c3"}
StreamIds == {"s1", "s2"}
WaitIds == {"w1"}
Targets == {"note", "task"}
Kinds == {"create"}
Refs == 1..MaxRefs
MaxLoops == 3
LoopIds == 1..MaxLoops
NoTask == 0
StopIds == {"a", "b"}
NoRef == 0

VARIABLES
    now,            \* the clock read by datetime.now() / time.time(), in seconds
    connections,    \* ConnectionPool.connections: id -> Connection object (NoRef: absent)
    heap,           \* the Connection objects, by reference
    ret,            \* what the last direct pool call returned or raised
    event_history,  \* EventManager.event_history
    metrics,        \* EventManager.metrics
    emits,          \* the emit calls made so far, in order of their start
    tasks,          \* the delivery tasks created by _distribute_event
    streams,        \* the create_sse_stream generators
    waits,          \* the wait_for_updates calls
    cleanup         \* ConnectionPool._cleanup_task, the _cleanup_loop tasks and the stop calls

emitVars == <<event_history, metrics, emits, tasks>>
userVars == <<streams, waits>>
vars == <<now, connections, heap, ret, event_history, metrics, emits, tasks,
          streams, waits, cleanup>>

(***************************************************************************)
(* Connection                                                              *)
(***************************************************************************)
\* A reference no connection object is stored under yet.
Blank ==
    [id |-> "", last_activity |-> 0, subscriptions |-> {}, queue |-> <<>>,
     temporary |-> FALSE, event_count |-> 0,
     rate_limit_window_start |-> 0, rate_limit_count |-> 0]

Connection(id, temp, t) ==
    [id |-> id, last_activity |-> t, subscriptions |-> {}, queue |-> <<>>,
     temporary |-> temp, event_count |-> 0,
     rate_limit_window_start |-> t, rate_limit_count |-> 0]

Registered == {i \in ConnIds : connections[i] # NoRef}

\* The objects the registry, a delivery task, a stream or a wait refers to.
InUse ==
    ({connections[i] : i \in ConnIds} \cup {t.ref : t \in tasks}
        \cup {streams[s].ref : s \in StreamIds}
        \cup {waits[w].ref : w \in WaitIds}) \ {NoRef}

\* Objects nothing refers to after the step are garbage: their content is
\* dropped.  Used as the last conjunct of an action.
Collect(h) == [r \in Refs |-> IF r \in InUse' THEN h[r] ELSE Blank]

FreeRefs == Refs \ InUse

FreeRef == CHOOSE r \in Refs : r \in FreeRefs

(***************************************************************************)
(* ConnectionPool                                                          *)
(***************************************************************************)
\* Mutant of AtCapacity: the bound is checked one connection too late.
AtCapacityOffByOne == Cardinality(Registered) > MAX_CONNECTIONS

AtCapacity == Cardinality(Registered) >= MAX_CONNECTIONS

\* Mutant of CreateOutcome: the duplicate check is missing.
CreateOutcomeNoDuplicateCheck(id) ==
    IF AtCapacity THEN "RuntimeError" ELSE "ok"

CreateOutcome(id) ==
    IF AtCapacity THEN "RuntimeError"
    ELSE IF id \in Registered THEN "ValueError"
    ELSE "ok"

\* The registry and the heap after a create_connection that succeeds.
Created(id) == [connections EXCEPT ![id] = FreeRef]

Allocated(id, temp) == [heap EXCEPT ![FreeRef] = Connection(id, temp, now)]

create_connection(id, temp) ==
    /\ IF CreateOutcome(id) = "ok"
       THEN /\ FreeRefs # {}
            /\ connections' = Created(id)
            /\ heap' = Allocated(id, temp)
       ELSE UNCHANGED <<connections, heap>>
    /\ ret' = [op |-> "create", result |-> CreateOutcome(id), count |-> 0]
    /\ UNCHANGED <<now, cleanup, emitVars, userVars>>

\* Mutant of Subscribe: the new channels replace the old ones.
SubscribeReplacing(h, r, channels) == [h EXCEPT ![r].subscriptions = channels]

Subscribe(h, r, channels) == [h EXCEPT ![r].subscriptions = @ \cup channels]

Touch(h, id) ==
    IF connections[id] # NoRef
    THEN [h EXCEPT ![connections[id]].last_activity = now]
    ELSE h

get_connection(id) ==
    /\ heap' = Touch(heap, id)
    /\ ret' = [op |-> "get",
               result |-> IF id \in Registered THEN "found" ELSE "None",
               count |-> 0]
    /\ UNCHANGED <<now, cleanup, connections, emitVars, userVars>>

\* Mutant of Without: the registry is cleared.
WithoutAny(conns, ids) == [i \in ConnIds |-> IF ids = {} THEN conns[i] ELSE NoRef]

Without(conns, ids) == [i \in ConnIds |-> IF i \in ids THEN NoRef ELSE conns[i]]

remove_connection(id) ==
    /\ connections' = Without(connections, {id})
    /\ ret' = [op |-> "remove", result |-> "None", count |-> 0]
    /\ UNCHANGED <<now, cleanup, emitVars, userVars>>
    /\ heap' = Collect(heap)

\* EventFilter.since: None, or a string of 36 characters (taken for an event
\* id and not compared), or else a timestamp.
NoSince == -1
UuidSince == -2

\* EventFilter(): no type, source or target set, priority_min LOW, expired
\* events excluded, no since, no correlation id.
DefaultFilter ==
    [types |-> {}, sources |-> {}, targets |-> {}, priority_min |-> LOW,
     exclude_expired |-> TRUE, since |-> NoSince, correlation_id |-> ""]

\* A wait_for_updates call: its locals, and after its end its outcome.
\* pulled is the history of what queue.get() handed to the call, before what
\* the caller noted of its earlier calls.
IdleWait ==
    [pc |-> "idle", conn_id |-> "", ref |-> NoRef, deadline |-> 0,
     filters |-> DefaultFilter, events |-> <<>>, pulled |-> <<>>,
     status |-> "none", last_event_id |-> 0, before |-> {}]

\* Mutant of IsStale: a connection idle for exactly the limit is stale too.
IsStaleInclusive(c, max_idle_seconds) == now - c.last_activity >= max_idle_seconds

IsStale(c, max_idle_seconds) == now - c.last_activity > max_idle_seconds

Stale(max_idle_seconds) ==
    {i \in Registered : IsStale(heap[connections[i]], max_idle_seconds)}

cleanup_stale_connections(max_idle_seconds) ==
    /\ connections' = Without(connections, Stale(max_idle_seconds))
    /\ ret' = [op |-> "cleanup", result |-> "count",
               count |-> Cardinality(Stale(max_idle_seconds))]
    /\ UNCHANGED <<now, cleanup, emitVars, userVars>>
    /\ heap' = Collect(heap)

\* A second passes, up to the limit.
Advance(limit) ==
    /\ now < limit
    /\ now' = now + 1
    /\ UNCHANGED <<cleanup, connections, heap, ret, emitVars, userVars>>

Tick == Advance(MaxTime)

\* ConnectionPool.__init__: _cleanup_task is None, no _cleanup_loop task was
\* created and no stop_cleanup_task call is suspended.
NoCleanup ==
    [task |-> NoTask, loops |-> [k \in LoopIds |-> "none"], cancels |-> {},
     awaits |-> [p \in StopIds |-> NoTask]]

\* EventMetrics.__init__: the counters, and the two defaultdict(int) with no
\* key yet.
EventMetrics ==
    [total_events |-> 0, events_by_type |-> [k \in {} |-> 0],
     events_by_source |-> [k \in {} |-> 0],
     failed_deliveries |-> 0, rate_limit_hits |-> 0]

Init ==
    /\ now = 0
    /\ connections = [i \in ConnIds |-> NoRef]
    /\ heap = [r \in Refs |-> Blank]
    /\ ret = [op |-> "none", result |-> "None", count |-> 0]
    /\ event_history = <<>>
    /\ metrics = EventMetrics
    /\ emits = <<>>
    /\ tasks = {}
    /\ streams = [s \in StreamIds |-> [pc |-> "idle", conn_id |-> "", ref |-> NoRef]]
    /\ waits = [w \in WaitIds |-> IdleWait]
    /\ cleanup = NoCleanup

(***************************************************************************)
(* Events and channels                                                     *)
(***************************************************************************)
\* The event emit builds: the source and the correlation id are fixed here,
\* the timestamp is the clock's and the ttl is the default of __post_init__.
Event(n, target, kind, priority) ==
    [id |-> n, target |-> target, type |-> kind, priority |-> priority,
     source |-> "ui", correlation_id |-> "", timestamp |-> now,
     ttl |-> EVENT_TTL]

\* The event of an emit call that names its source.
EventFrom(n, source, target, kind, priority) ==
    [Event(n, target, kind, priority) EXCEPT !.source = source]

\* d[key] += 1 on a defaultdict(int): a key that is new starts from 0.
Counted(d, key) ==
    [k \in DOMAIN d \cup {key} |->
        IF k = key
        THEN (IF key \in DOMAIN d THEN d[key] ELSE 0) + 1
        ELSE d[k]]

\* Mutant of record_event: the source of the event is not counted.
record_eventNoSource(m, event) ==
    [m EXCEPT !.total_events = @ + 1,
              !.events_by_type = Counted(@, event.type)]

\* EventMetrics.record_event
record_event(m, event) ==
    [m EXCEPT !.total_events = @ + 1,
              !.events_by_type = Counted(@, event.type),
              !.events_by_source = Counted(@, event.source)]

\* Mutant of is_expired_at: an event expires when its age reaches the ttl.
is_expired_atInclusive(event, t) ==
    IF event.ttl = 0 THEN FALSE ELSE t - event.timestamp >= event.ttl

\* Event.is_expired, with the clock's reading t.
is_expired_at(event, t) ==
    IF event.ttl = 0 THEN FALSE ELSE t - event.timestamp > event.ttl

is_expired(event) == is_expired_at(event, now)

\* The four channel keys of _distribute_event, in the order it scans them.
Channels(event) ==
    << event.target \o ":" \o event.type,
       event.target \o ":*",
       "*:" \o event.type,
       "*" >>

\* _get_channel_subscribers: the ids of the registered connections that
\* subscribe to the channel.
ChannelSubscribers(channel) ==
    {i \in Registered : channel \in heap[connections[i]].subscriptions}

\* One delivery task per channel key and subscriber of that key.
NewTasks(event) ==
    {t \in [event : {event}, chan : 1..4, conn_id : ConnIds,
            pc : {"start"}, attempt : {0}, ref : {NoRef}] :
        t.conn_id \in ChannelSubscribers(Channels(event)[t.chan])}

\* Mutant of HistoryAppend: a full history gives up its newest event.
HistoryAppendEvictsNewest(h, event) ==
    IF Len(h) >= MAX_EVENT_HISTORY
    THEN Append(SubSeq(h, 1, Len(h) - 1), event)
    ELSE Append(h, event)

\* deque(maxlen=MAX_EVENT_HISTORY).append
HistoryAppend(h, event) ==
    IF Len(h) >= MAX_EVENT_HISTORY
    THEN Append(SubSeq(h, 2, Len(h)), event)
    ELSE Append(h, event)

TasksOf(n) == {t \in tasks : t.event.id = n}

FinalPcs == {"absent", "rate_limited", "enqueued", "failed"}

(***************************************************************************)
(* EventManager.emit                                                       *)
(***************************************************************************)
\* emit up to the await of asyncio.gather: the event is built, appended to
\* the history, counted, the registry is scanned once per channel key and a
\* task is created per hit.  With no task there is nothing to await and the
\* call returns in the same step.
emit_from(source, target, kind, priority) ==
    /\ Len(emits) < MaxEmits
    /\ LET event == EventFrom(Len(emits) + 1, source, target, kind, priority)
           new == NewTasks(event)
       IN /\ event_history' = HistoryAppend(event_history, event)
          /\ metrics' = record_event(metrics, event)
          /\ Cardinality(tasks \cup new) <= MaxTasks
          /\ tasks' = tasks \cup new
          /\ emits' = Append(emits,
                 IF new = {}
                 THEN [event |-> event, pc |-> "returned", result |-> event.id]
                 ELSE [event |-> event, pc |-> "gather", result |-> 0])
    /\ UNCHANGED <<now, cleanup, connections, heap, ret, userVars>>

\* emit called with the source "ui".
emit(target, kind, priority) == emit_from("ui", target, kind, priority)

\* Connection.is_rate_limited: the verdict, and the window it leaves behind.
WindowExpired(c) == now - c.rate_limit_window_start > RATE_LIMIT_WINDOW

\* Mutant of is_rate_limited: the budget is one delivery too large.
is_rate_limitedOffByOne(c) ==
    IF WindowExpired(c) THEN FALSE ELSE c.rate_limit_count > RATE_LIMIT_EVENTS

is_rate_limited(c) ==
    IF WindowExpired(c) THEN FALSE ELSE c.rate_limit_count >= RATE_LIMIT_EVENTS

\* Mutant of AfterRateCheck: an expired window restarts with its old count.
AfterRateCheckKeepsCount(c) ==
    IF WindowExpired(c)
    THEN [c EXCEPT !.rate_limit_window_start = now]
    ELSE c

AfterRateCheck(c) ==
    IF WindowExpired(c)
    THEN [c EXCEPT !.rate_limit_window_start = now, !.rate_limit_count = 0]
    ELSE c

\* Mutant of increment_rate_limit: the delivery is not counted.
increment_rate_limitSkipped(c) == c

increment_rate_limit(c) == [c EXCEPT !.rate_limit_count = @ + 1]

\* Mutant of SetTask: a delivery that fails takes the other deliveries of the
\* same event down with it.
SetTaskCancelling(t, new) ==
    IF new.pc = "failed"
    THEN {IF u = t
          THEN new
          ELSE IF u.event = t.event /\ u.pc = "start" /\ u.conn_id \in Registered
               THEN [u EXCEPT !.pc = "failed", !.ref = connections[u.conn_id]]
               ELSE u : u \in tasks}
    ELSE (tasks \ {t}) \cup {new}

SetTask(t, new) == (tasks \ {t}) \cup {new}

\* _send_to_connection from its start to the first queue.put: the lookup by
\* id (which touches last_activity), the rate check and the increment.
SendStart(t) ==
    /\ t \in tasks /\ t.pc = "start"
    /\ IF t.conn_id \notin Registered
       THEN /\ tasks' = SetTask(t, [t EXCEPT !.pc = "absent"])
            /\ UNCHANGED <<heap, metrics>>
       ELSE LET r == connections[t.conn_id]
                c == [heap[r] EXCEPT !.last_activity = now]
            IN IF is_rate_limited(c)
               THEN /\ heap' = [heap EXCEPT ![r] = AfterRateCheck(c)]
                    /\ metrics' = [metrics EXCEPT !.rate_limit_hits = @ + 1]
                    /\ tasks' = SetTask(t, [t EXCEPT !.pc = "rate_limited"])
               ELSE /\ heap' = [heap EXCEPT
                                  ![r] = increment_rate_limit(AfterRateCheck(c))]
                    /\ tasks' = SetTask(t, [t EXCEPT !.pc = "put", !.ref = r])
                    /\ UNCHANGED metrics
    /\ UNCHANGED <<now, cleanup, connections, ret, event_history, emits, userVars>>

\* Mutant of QueueFull: the queue takes one event more than its maxsize.
QueueFullLate(c) == Len(c.queue) > MAX_QUEUE_SIZE

\* Mutant of QueueFull: the queue is taken as full one event early.
QueueFullEarly(c) == Len(c.queue) >= MAX_QUEUE_SIZE - 1

QueueFull(c) == Len(c.queue) >= MAX_QUEUE_SIZE

\* Mutant of AfterTimeout: one attempt too many.
AfterTimeoutOneMore(t) ==
    IF t.attempt < MAX_RETRY_ATTEMPTS
    THEN [t EXCEPT !.attempt = @ + 1]
    ELSE [t EXCEPT !.pc = "failed", !.attempt = 0]

\* Mutant of AfterTimeout: the retry loop has no bound.
AfterTimeoutForever(t) == t

\* The task after wait_for(queue.put) timed out on attempt t.attempt.
AfterTimeout(t) ==
    IF t.attempt < MAX_RETRY_ATTEMPTS - 1
    THEN [t EXCEPT !.attempt = @ + 1]
    ELSE [t EXCEPT !.pc = "failed", !.attempt = 0]

LastAttempt(t) == ~(t.attempt < MAX_RETRY_ATTEMPTS - 1)

\* Mutant of Enqueued: the event is put in front of the waiting ones.
EnqueuedFirst(queue, event) == <<event>> \o queue

\* asyncio.Queue.put_nowait on a deque: the event goes to the end.
Enqueued(queue, event) == Append(queue, event)

\* One pass of the retry loop: wait_for(conn.queue.put(event), 1.0) on the
\* connection object the task holds, then the sleep before the next pass.
SendPut(t) ==
    /\ t \in tasks /\ t.pc = "put"
    /\ IF QueueFull(heap[t.ref])
       THEN /\ metrics' = IF LastAttempt(t)
                          THEN [metrics EXCEPT !.failed_deliveries = @ + 1]
                          ELSE metrics
            /\ tasks' = SetTask(t, AfterTimeout(t))
            /\ UNCHANGED <<now, cleanup, connections, ret, event_history, emits, userVars>>
            /\ heap' = Collect(heap)
       ELSE /\ tasks' = SetTask(t, [t EXCEPT !.pc = "enqueued", !.attempt = 0])
            /\ UNCHANGED <<now, cleanup, connections, ret, event_history, emits, userVars,
                           metrics>>
            /\ heap' = Collect([heap EXCEPT ![t.ref].queue = Enqueued(@, t.event),
                                            ![t.ref].event_count = @ + 1])

\* The same pass of the retry loop in two steps.  SendBlock: queue.put finds
\* the queue full and suspends on a putter future.
SendBlock(t) ==
    /\ t \in tasks /\ t.pc = "put"
    /\ QueueFull(heap[t.ref])
    /\ tasks' = SetTask(t, [t EXCEPT !.pc = "blocked"])
    /\ UNCHANGED <<now, cleanup, connections, heap, ret, event_history, emits, metrics,
                   userVars>>

\* A get made room and woke the putter before the second was over: the put
\* goes through on the same attempt.
SendWake(t) ==
    /\ t \in tasks /\ t.pc = "blocked"
    /\ ~QueueFull(heap[t.ref])
    /\ tasks' = SetTask(t, [t EXCEPT !.pc = "enqueued", !.attempt = 0])
    /\ UNCHANGED <<now, cleanup, connections, ret, event_history, emits, userVars, metrics>>
    /\ heap' = Collect([heap EXCEPT ![t.ref].queue = Enqueued(@, t.event),
                                    ![t.ref].event_count = @ + 1])

\* The second is over with the put still suspended: wait_for raises
\* TimeoutError and the loop sleeps before the next attempt, or gives up.
SendTimeout(t) ==
    /\ t \in tasks /\ t.pc = "blocked"
    /\ metrics' = IF LastAttempt(t)
                  THEN [metrics EXCEPT !.failed_deliveries = @ + 1]
                  ELSE metrics
    /\ tasks' = SetTask(t, AfterTimeout([t EXCEPT !.pc = "put"]))
    /\ UNCHANGED <<now, cleanup, connections, ret, event_history, emits, userVars>>
    /\ heap' = Collect(heap)

\* The order in which _distribute_event creates the tasks of one subscriber:
\* emit after emit, and channel key after channel key within an emit.
Before(u, t) ==
    /\ u.conn_id = t.conn_id
    /\ \/ u.event.id < t.event.id
       \/ u.event.id = t.event.id /\ u.chan < t.chan

\* The event loop runs ready tasks first in, first out: a delivery task
\* starts after the tasks created before it have started.
FifoStart(t) ==
    /\ \A u \in tasks : Before(u, t) => u.pc # "start"
    /\ SendStart(t)

\* The first put of a task runs after the first puts of the tasks created
\* before it; a retry runs whenever its sleep is over.
FifoPut(t) ==
    /\ t \in tasks /\ t.pc = "put"
    /\ t.attempt = 0
          => \A u \in tasks :
                Before(u, t) => ~(u.pc = "start" \/ (u.pc = "put" /\ u.attempt = 0))
    /\ IF QueueFull(heap[t.ref]) THEN SendBlock(t) ELSE SendPut(t)

\* asyncio.gather(*tasks, return_exceptions=True) is over when every task is.
GatherDone(n) == \A t \in TasksOf(n) : t.pc \in FinalPcs

EmitReturn(n) ==
    /\ n \in 1..Len(emits) /\ emits[n].pc = "gather"
    /\ GatherDone(n)
    /\ emits' = [emits EXCEPT ![n].pc = "returned", ![n].result = emits[n].event.id]
    /\ tasks' = tasks \ TasksOf(n)
    /\ UNCHANGED <<now, cleanup, connections, ret, event_history, metrics, userVars>>
    /\ heap' = Collect(heap)

(***************************************************************************)
(* create_sse_stream (sse_handler.py)                                      *)
(***************************************************************************)
StreamChannels == {{"note:*"}, {"note:*", "*"}}

\* From the call to the first yield.  When create_connection succeeds the
\* channels are subscribed and the "connection" message is yielded; when it
\* raises, the error message is yielded from the except clause.
StreamOpen(s, id, channels) ==
    /\ streams[s].pc = "idle"
    /\ IF CreateOutcome(id) = "ok"
       THEN /\ FreeRefs # {}
            /\ connections' = Created(id)
            /\ streams' = [streams EXCEPT
                            ![s] = [pc |-> "open", conn_id |-> id, ref |-> FreeRef]]
            /\ heap' = Subscribe(Allocated(id, FALSE), FreeRef, channels)
       ELSE /\ streams' = [streams EXCEPT
                            ![s] = [pc |-> "failed", conn_id |-> id, ref |-> NoRef]]
            /\ UNCHANGED <<connections, heap>>
    /\ UNCHANGED <<now, cleanup, ret, emitVars, waits>>

\* One pass of the main loop that finds an event: wait_for(conn.queue.get())
\* on the connection object the generator holds, then the yield of the event.
StreamPull(s) ==
    /\ streams[s].pc = "open"
    /\ Len(heap[streams[s].ref].queue) > 0
    /\ heap' = [heap EXCEPT ![streams[s].ref].queue = Tail(@)]
    /\ UNCHANGED <<now, cleanup, connections, ret, emitVars, userVars>>

\* Mutant of StreamFinally: the generator ends without the removal.
StreamFinallyKeeps(s) == connections

\* The registry after the outer finally clause: remove_connection(conn_id).
StreamFinally(s) == Without(connections, {streams[s].conn_id})

\* The generator ends (the client disconnected, the generator was closed at a
\* yield, or the error message was consumed): the outer finally removes
\* whatever connection is registered under conn_id.
StreamClose(s) ==
    /\ streams[s].pc \in {"open", "failed"}
    /\ connections' = StreamFinally(s)
    /\ streams' = [streams EXCEPT ![s] = [pc |-> "closed", conn_id |-> "", ref |-> NoRef]]
    /\ UNCHANGED <<now, cleanup, ret, emitVars, waits>>
    /\ heap' = Collect(heap)

(***************************************************************************)
(* EventManager.wait_for_updates                                           *)
(***************************************************************************)
MAX_TIMEOUT == 1
WaitTargets == {<<>>, <<"note">>}
WaitFilters == {DefaultFilter, [DefaultFilter EXCEPT !.targets = {"note"}]}

\* Mutant of matches_at: the filter lets expired events through.
matches_atKeepsExpired(filters, event, t) ==
    IF filters.types # {} /\ event.type \notin filters.types THEN FALSE
    ELSE IF filters.sources # {} /\ event.source \notin filters.sources THEN FALSE
    ELSE IF filters.targets # {} /\ event.target \notin filters.targets THEN FALSE
    ELSE IF event.priority < filters.priority_min THEN FALSE
    ELSE IF filters.correlation_id # ""
            /\ event.correlation_id # filters.correlation_id THEN FALSE
    ELSE IF filters.since \notin {NoSince, UuidSince}
            /\ event.timestamp < filters.since THEN FALSE
    ELSE TRUE

\* EventFilter.matches with the clock's reading t: the tests in the order of
\* the code, each returning False when a criterion that is set fails.
matches_at(filters, event, t) ==
    IF filters.exclude_expired /\ is_expired_at(event, t) THEN FALSE
    ELSE IF filters.types # {} /\ event.type \notin filters.types THEN FALSE
    ELSE IF filters.sources # {} /\ event.source \notin filters.sources THEN FALSE
    ELSE IF filters.targets # {} /\ event.target \notin filters.targets THEN FALSE
    ELSE IF event.priority < filters.priority_min THEN FALSE
    ELSE IF filters.correlation_id # ""
            /\ event.correlation_id # filters.correlation_id THEN FALSE
    ELSE IF filters.since \notin {NoSince, UuidSince}
            /\ event.timestamp < filters.since THEN FALSE
    ELSE TRUE

matches(filters, event) == matches_at(filters, event, now)

\* Mutant of WaitChannels: the wildcard channel is always subscribed too.
WaitChannelsWithAll(targets) ==
    {"*"} \cup {targets[k] \o ":*" : k \in 1..Len(targets)}
          \cup {"*:" \o targets[k] : k \in 1..Len(targets)}

\* The channels subscribed for the given targets.
WaitChannels(targets) ==
    IF targets = <<>>
    THEN {"*"}
    ELSE {targets[k] \o ":*" : k \in 1..Len(targets)}
            \cup {"*:" \o targets[k] : k \in 1..Len(targets)}

Min(a, b) == IF a < b THEN a ELSE b

\* Mutant of ClampTimeout: the timeout is taken as given.
ClampTimeoutNone(timeout) == timeout

\* timeout = min(timeout, MAX_TIMEOUT)
ClampTimeout(timeout) == IF timeout < MAX_TIMEOUT THEN timeout ELSE MAX_TIMEOUT

\* The call once it holds its connection object r: nothing collected yet and
\* the deadline set.
Waiting(id, r, timeout, filters) ==
    [pc |-> "wait", conn_id |-> id, ref |-> r,
     deadline |-> now + ClampTimeout(timeout), filters |-> filters,
     events |-> <<>>, pulled |-> <<>>, status |-> "none", last_event_id |-> 0,
     before |-> {}]

\* The deadline of a call started now is within the clock's range.
InTime(timeout) == now + Min(timeout, MAX_TIMEOUT) <= MaxTime

\* From the call to the first queue.get: the connection is looked up (and
\* touched) or created, the channels are added and the deadline is set.  A
\* create_connection that raises ends the call.  before is what the caller
\* carries over from its earlier calls; the call itself never reads it.
WaitStartAfter(w, id, targets, timeout, filters, before) ==
    /\ waits[w].pc = "idle"
    /\ IF id \in Registered
       THEN /\ waits' = [waits EXCEPT
                           ![w] = [Waiting(id, connections[id], timeout, filters)
                                      EXCEPT !.before = before]]
            /\ UNCHANGED connections
            /\ heap' = Subscribe(Touch(heap, id), connections[id],
                                 WaitChannels(targets))
       ELSE IF CreateOutcome(id) = "ok"
            THEN /\ FreeRefs # {}
                 /\ connections' = Created(id)
                 /\ waits' = [waits EXCEPT
                                ![w] = [Waiting(id, FreeRef, timeout, filters)
                                           EXCEPT !.before = before]]
                 /\ heap' = Subscribe(Allocated(id, FALSE), FreeRef,
                                      WaitChannels(targets))
            ELSE /\ waits' = [waits EXCEPT ![w] =
                       [IdleWait EXCEPT !.status = CreateOutcome(id),
                                        !.before = before]]
                 /\ UNCHANGED <<connections, heap>>
    /\ UNCHANGED <<now, cleanup, ret, emitVars, streams>>

\* A call of a caller that carries nothing over.
WaitStart(w, id, targets, timeout, filters) ==
    WaitStartAfter(w, id, targets, timeout, filters, {})

\* The call after queue.get() handed it the event: kept if the filter matches.
Collected(wt, event) ==
    [wt EXCEPT !.pulled = Append(@, event),
               !.events = IF matches(wt.filters, event) THEN Append(@, event) ELSE @]

\* Mutant of EndsWait: any critical event ends the wait.
EndsWaitUnfiltered(wt, event) == event.priority = CRITICAL

\* The break out of the collecting loop on a matching critical event.
EndsWait(wt, event) == matches(wt.filters, event) /\ event.priority = CRITICAL

\* Mutant of Response: the outcome only says whether anything was pulled.
ResponseOfPulled(wt) ==
    [wt EXCEPT !.pc = "idle", !.ref = NoRef,
               !.status = IF wt.pulled # <<>> THEN "updates" ELSE "timeout",
               !.last_event_id = IF wt.pulled # <<>>
                                 THEN wt.pulled[Len(wt.pulled)].id ELSE 0]

\* The response built after the loop, as the call's outcome.
Response(wt) ==
    [wt EXCEPT !.pc = "idle", !.ref = NoRef,
               !.status = IF wt.events # <<>> THEN "updates" ELSE "timeout",
               !.last_event_id = IF wt.events # <<>>
                                 THEN wt.events[Len(wt.events)].id ELSE 0]

\* Mutant of AfterFinally: the finally clause removes nothing.
AfterFinallyKeeps(wt) == connections

\* The registry after the finally clause: the id of a connection whose
\* metadata says "temporary" is removed.
AfterFinally(wt) ==
    IF heap[wt.ref].temporary
    THEN Without(connections, {wt.conn_id})
    ELSE connections

\* One pass of the collecting loop that gets an event before the deadline,
\* with the end of the call when the event is a matching critical one.
WaitPull(w) ==
    /\ waits[w].pc = "wait"
    /\ now < waits[w].deadline
    /\ Len(heap[waits[w].ref].queue) > 0
    /\ LET event == Head(heap[waits[w].ref].queue)
           wt == Collected(waits[w], event)
       IN IF EndsWait(waits[w], event)
          THEN /\ waits' = [waits EXCEPT ![w] = Response(wt)]
               /\ connections' = AfterFinally(waits[w])
          ELSE /\ waits' = [waits EXCEPT ![w] = wt]
               /\ UNCHANGED connections
    /\ UNCHANGED <<now, cleanup, ret, emitVars, streams>>
    /\ heap' = Collect([heap EXCEPT ![waits[w].ref].queue = Tail(@)])

\* The deadline has passed (remaining <= 0, or the get timed out): the
\* response is built and the finally clause runs.
WaitReturn(w) ==
    /\ waits[w].pc = "wait"
    /\ now >= waits[w].deadline
    /\ waits' = [waits EXCEPT ![w] = Response(waits[w])]
    /\ connections' = AfterFinally(waits[w])
    /\ UNCHANGED <<now, cleanup, ret, emitVars, streams>>
    /\ heap' = Collect(heap)

\* Mutant of ErrorResponse: the error outcome carries the collected events.
ErrorResponseWithEvents(wt) ==
    [wt EXCEPT !.pc = "idle", !.ref = NoRef, !.status = "error"]

\* The dictionary returned from the except Exception clause: a status, the
\* error text and the duration, and no events.
ErrorResponse(wt) ==
    [wt EXCEPT !.pc = "idle", !.ref = NoRef, !.status = "error",
               !.events = <<>>, !.last_event_id = 0]

\* wait_for(conn.queue.get()) raises an Exception that is not a timeout: the
\* except clause returns the error outcome and the finally clause runs.
WaitError(w) ==
    /\ waits[w].pc = "wait"
    /\ now < waits[w].deadline
    /\ waits' = [waits EXCEPT ![w] = ErrorResponse(waits[w])]
    /\ connections' = AfterFinally(waits[w])
    /\ UNCHANGED <<now, cleanup, ret, emitVars, streams>>
    /\ heap' = Collect(heap)

\* The task of the call is cancelled while it is suspended in queue.get():
\* CancelledError passes the except clauses, the finally clause runs and the
\* call raises.
WaitCancel(w) ==
    /\ waits[w].pc = "wait"
    /\ now < waits[w].deadline
    /\ waits' = [waits EXCEPT ![w] =
          [waits[w] EXCEPT !.pc = "idle", !.ref = NoRef, !.status = "cancelled"]]
    /\ connections' = AfterFinally(waits[w])
    /\ UNCHANGED <<now, cleanup, ret, emitVars, streams>>
    /\ heap' = Collect(heap)

(***************************************************************************)
(* EventManager.sync_changes                                               *)
(***************************************************************************)
\* last_sync_id = None
NoSyncId == 0

\* Mutant of SyncEvents: the event of the sync point is returned too.
RECURSIVE SyncEventsInclusive(_, _, _)
SyncEventsInclusive(h, found, last_sync_id) ==
    IF h = <<>> THEN <<>>
    ELSE IF (found \/ Head(h).id = last_sync_id) /\ ~is_expired(Head(h))
         THEN <<Head(h)>> \o SyncEventsInclusive(Tail(h), TRUE, last_sync_id)
         ELSE SyncEventsInclusive(Tail(h),
                                  found \/ Head(h).id = last_sync_id,
                                  last_sync_id)

\* The loop over the history: an event is taken when the sync point was found
\* before it and it is not expired; otherwise it is compared with the sync
\* point.
RECURSIVE SyncEvents(_, _, _)
SyncEvents(h, found, last_sync_id) ==
    IF h = <<>> THEN <<>>
    ELSE IF found /\ ~is_expired(Head(h))
         THEN <<Head(h)>> \o SyncEvents(Tail(h), found, last_sync_id)
         ELSE IF Head(h).id = last_sync_id
              THEN SyncEvents(Tail(h), TRUE, last_sync_id)
              ELSE SyncEvents(Tail(h), found, last_sync_id)

\* Mutant of NextSyncId: the id of the first returned event.
NextSyncIdFirst(events, last_sync_id) ==
    IF events # <<>> THEN events[1].id ELSE last_sync_id

NextSyncId(events, last_sync_id) ==
    IF events # <<>> THEN events[Len(events)].id ELSE last_sync_id

\* The call has no await: it runs in one step and changes nothing of the
\* manager.  ret keeps what it returned and what it was called with.
sync_changes(last_sync_id) ==
    /\ LET events == SyncEvents(event_history, last_sync_id = NoSyncId,
                                last_sync_id)
       IN ret' = [op |-> "sync", result |-> "events", count |-> Len(events),
                  events |-> events,
                  next_sync_id |-> NextSyncId(events, last_sync_id),
                  last_sync_id |-> last_sync_id, timestamp |-> now]
    /\ UNCHANGED <<now, cleanup, connections, heap, emitVars, userVars>>

(***************************************************************************)
(* The broker with its producers and its streaming consumers               *)
(***************************************************************************)
Next ==
    \/ \E target \in Targets, kind \in Kinds :
          Len(emits) < MaxBroadcasts /\ emit(target, kind, NORMAL)
    \/ \E t \in tasks : SendStart(t)
    \/ \E t \in tasks : SendPut(t)
    \/ \E n \in 1..MaxEmits : EmitReturn(n)
    \/ \E s \in StreamIds, id \in ConnIds, ch \in StreamChannels : StreamOpen(s, id, ch)
    \/ \E s \in StreamIds : StreamPull(s)
    \/ \E s \in StreamIds : StreamClose(s)

Spec == Init /\ [][Next]_vars

(***************************************************************************)
(* The registry with its callers, under a running clock                    *)
(***************************************************************************)
NextPool ==
    \/ Tick
    \/ \E id \in ConnIds, temp \in BOOLEAN : create_connection(id, temp)
    \/ \E id \in ConnIds : get_connection(id)
    \/ \E id \in ConnIds : remove_connection(id)
    \/ \E m \in 0..MaxIdleArg : cleanup_stale_connections(m)
    \/ StreamOpen("s1", "c1", {"*"})
    \/ StreamClose("s1")
    \/ \E w \in WaitIds, to \in 1..MAX_TIMEOUT :
          InTime(to) /\ WaitStart(w, "c2", <<>>, to, DefaultFilter)
    \/ \E w \in WaitIds : WaitReturn(w)

SpecPool == Init /\ [][NextPool]_vars

(***************************************************************************)
(* Properties of the registry (SpecPool)                                   *)
(***************************************************************************)
\* C3: the registry never holds more than MAX_CONNECTIONS connections, and a
\* create_connection called while it holds that many raises the capacity
\* error (RuntimeError) and leaves the registry as it was.
C3_CapacityNeverExceeded ==
    /\ [](Cardinality(Registered) <= MAX_CONNECTIONS)
    /\ [][\A id \in ConnIds, temp \in BOOLEAN :
            (Cardinality(Registered) >= MAX_CONNECTIONS
                /\ create_connection(id, temp))
            => (ret'.result = "RuntimeError" /\ connections' = connections
                    /\ heap' = heap)]_vars

\* A create_connection has just been refused by a full registry.
C3_Witness ==
    /\ Cardinality(Registered) = MAX_CONNECTIONS
    /\ ret.op = "create" /\ ret.result = "RuntimeError"

\* C4 as stated: create_connection on a registered id raises the duplicate-id
\* error (ValueError) and changes neither the registry nor any connection.
C4_DuplicateAlwaysValueError ==
    [][\A id \in ConnIds, temp \in BOOLEAN :
          (id \in Registered /\ create_connection(id, temp))
          => (ret'.result = "ValueError" /\ connections' = connections
                  /\ heap' = heap)]_vars

\* C4 amended: create_connection on a registered id raises, the duplicate-id
\* error (ValueError) while the registry is below MAX_CONNECTIONS and the
\* capacity error (RuntimeError) when it is full, and changes neither the
\* registry nor any connection.
C4_DuplicateRaisesAndKeeps ==
    [][\A id \in ConnIds, temp \in BOOLEAN :
          (id \in Registered /\ create_connection(id, temp))
          => /\ ret'.result =
                   IF Cardinality(Registered) >= MAX_CONNECTIONS
                   THEN "RuntimeError" ELSE "ValueError"
             /\ connections' = connections
             /\ heap' = heap]_vars

\* A duplicate create was just refused while a connection that already has
\* subscriptions is registered.
C4_Witness ==
    /\ ret.op = "create" /\ ret.result = "ValueError"
    /\ \E i \in Registered : heap[connections[i]].subscriptions # {}

\* C5: remove_connection never raises; on an absent id (so also when called
\* a second time) it changes nothing, and on a registered id it removes that
\* id alone and leaves every other connection registered and untouched.
C5_RemoveIdempotent ==
    [][\A id \in ConnIds :
          remove_connection(id)
          => /\ ret'.result = "None"
             /\ Registered' = Registered \ {id}
             /\ \A j \in Registered \ {id} :
                   /\ connections'[j] = connections[j]
                   /\ heap'[connections[j]] = heap[connections[j]]
             /\ id \notin Registered
                   => (connections' = connections /\ heap' = heap)]_vars

\* A remove has just returned and a subscribed connection is still there.
C5_Witness ==
    /\ ret.op = "remove"
    /\ \E i \in Registered : heap[connections[i]].subscriptions # {}

\* C6: cleanup_stale_connections(m) removes exactly the connections with
\* now - last_activity > m, keeps every other one, and returns how many it
\* removed.
C6_SweepRemovesExactlyIdle ==
    [][\A m \in 0..MaxIdleArg :
          cleanup_stale_connections(m)
          => /\ Registered' =
                   {i \in Registered : ~(now - heap[connections[i]].last_activity > m)}
             /\ \A i \in Registered' : connections'[i] = connections[i]
             /\ ret'.count = Cardinality(Registered \ Registered')]_vars

\* A sweep has just removed a connection and kept another.
C6_Witness ==
    /\ ret.op = "cleanup" /\ ret.count > 0
    /\ Registered # {}

(***************************************************************************)
(* Properties of emit and its deliveries (Spec, LiveSpec)                  *)
(***************************************************************************)
\* The scheduler runs every task that is ready and every timeout fires.
LiveSpec ==
    /\ Spec
    /\ WF_vars(\E t \in tasks : SendStart(t))
    /\ WF_vars(\E t \in tasks : SendPut(t))
    /\ WF_vars(\E n \in 1..MaxEmits : EmitReturn(n))

Matches(event, subscriptions) ==
    \E k \in 1..4 : Channels(event)[k] \in subscriptions

Holds(queue, event) == \E k \in 1..Len(queue) : queue[k] = event

\* C1 as stated: one emit puts its event at most once into a connection's
\* queue, also when the connection subscribes to several of the event's
\* channel keys.
C1_EnqueuedOncePerEmit ==
    \A r \in Refs : \A j, k \in 1..Len(heap[r].queue) :
        heap[r].queue[j].id = heap[r].queue[k].id => j = k

\* C2 as stated: an event is only ever in the queue of a connection whose
\* subscriptions contain one of the event's four channel keys.
C2_OnlySubscribersReceive ==
    \A i \in Registered : \A k \in 1..Len(heap[connections[i]].queue) :
        Matches(heap[connections[i]].queue[k], heap[connections[i]].subscriptions)

\* C7: every emit call returns its event to the caller, whatever its
\* deliveries end in.
C7_EmitAlwaysReturns ==
    \A n \in 1..MaxEmits :
        (Len(emits) >= n) ~>
            (Len(emits) >= n /\ emits[n].pc = "returned"
                /\ emits[n].result = emits[n].event.id)

\* An emit has returned although a delivery of an event was given up and
\* another was skipped for the rate limit.
C7_Witness ==
    /\ \E n \in 1..Len(emits) : emits[n].pc = "returned"
    /\ metrics.failed_deliveries > 0
    /\ metrics.rate_limit_hits > 0
    /\ tasks = {}

\* C8: when the delivery of an event to connection A has failed, the delivery
\* of the same event to another connection B whose queue had room all along
\* (it has room now and nothing was ever taken out of it) ends with the event
\* in B's queue.
C8_FailureDoesNotStopOthers ==
    \A a, b \in tasks :
        ( /\ a.event = b.event /\ a.conn_id # b.conn_id
          /\ a.pc = "failed"
          /\ b.pc \in {"enqueued", "failed"}
          /\ Len(heap[b.ref].queue) < MAX_QUEUE_SIZE
          /\ heap[b.ref].event_count = Len(heap[b.ref].queue) )
        => (b.pc = "enqueued" /\ Holds(heap[b.ref].queue, b.event))

\* The delivery to A failed and the one to B put the event in B's queue.
C8_Witness ==
    \E a, b \in tasks :
        /\ a.event = b.event /\ a.conn_id # b.conn_id
        /\ a.pc = "failed" /\ b.pc = "enqueued"
        /\ Len(heap[b.ref].queue) < MAX_QUEUE_SIZE
        /\ heap[b.ref].event_count = Len(heap[b.ref].queue)
        /\ Holds(heap[b.ref].queue, b.event)

\* C9 as stated: emit does not wait for timed-out attempts: once a delivery
\* of its event has timed out, the emit call has already returned.
C9_EmitDoesNotWaitForRetries ==
    \A n \in 1..Len(emits) :
        emits[n].pc = "gather" =>
            \A t \in TasksOf(n) : t.pc = "put" => t.attempt = 0

RateChannels == {"note:create", "note:*", "*"}

NextRate ==
    \/ Tick
    \/ StreamOpen("s1", "c1", RateChannels)
    \/ \E target \in Targets, kind \in Kinds : emit(target, kind, NORMAL)
    \/ \E t \in tasks : SendStart(t)
    \/ \E t \in tasks : SendPut(t)
    \/ \E n \in 1..MaxEmits : EmitReturn(n)
    \/ StreamPull("s1")

SpecRate == Init /\ [][NextRate]_vars

\* C11: a delivery to a connection that has RATE_LIMIT_EVENTS deliveries
\* counted in its window, no more than RATE_LIMIT_WINDOW seconds after the
\* window started, is skipped: the delivery is over, the queue is as it was,
\* rate_limit_hits grows by one, failed_deliveries stays and the connection
\* stays registered.
C11_RateLimitedSkipped ==
    [][\A t \in tasks :
          ( /\ SendStart(t)
            /\ t.conn_id \in Registered
            /\ heap[connections[t.conn_id]].rate_limit_count >= RATE_LIMIT_EVENTS
            /\ now - heap[connections[t.conn_id]].rate_limit_window_start
                  <= RATE_LIMIT_WINDOW )
          => /\ [t EXCEPT !.pc = "rate_limited"] \in tasks'
             /\ heap'[connections[t.conn_id]].queue
                   = heap[connections[t.conn_id]].queue
             /\ heap'[connections[t.conn_id]].rate_limit_count
                   = heap[connections[t.conn_id]].rate_limit_count
             /\ metrics'.rate_limit_hits = metrics.rate_limit_hits + 1
             /\ metrics'.failed_deliveries = metrics.failed_deliveries
             /\ connections' = connections]_vars

\* A delivery was skipped for the rate limit while the queue had room.
C11_Witness ==
    \E t \in tasks :
        /\ t.pc = "rate_limited"
        /\ t.conn_id \in Registered
        /\ Len(heap[connections[t.conn_id]].queue) < MAX_QUEUE_SIZE
        /\ heap[connections[t.conn_id]].rate_limit_count >= RATE_LIMIT_EVENTS
        /\ metrics.rate_limit_hits > 0
        /\ metrics.failed_deliveries = 0

\* C12: a delivery that starts more than RATE_LIMIT_WINDOW seconds after the
\* connection's window started is not skipped, whatever the count was: the
\* window starts again now with this delivery as its first, and the attempt
\* that follows puts the event into a queue that has room.
C12_WindowResetRecovers ==
    /\ [][\A t \in tasks :
            ( /\ SendStart(t)
              /\ t.conn_id \in Registered
              /\ now - heap[connections[t.conn_id]].rate_limit_window_start
                    > RATE_LIMIT_WINDOW )
            => /\ [t EXCEPT !.pc = "put", !.ref = connections[t.conn_id]] \in tasks'
               /\ heap'[connections[t.conn_id]].rate_limit_window_start = now
               /\ heap'[connections[t.conn_id]].rate_limit_count = 1
               /\ metrics' = metrics]_vars
    /\ [][\A t \in tasks :
            (SendPut(t) /\ Len(heap[t.ref].queue) < MAX_QUEUE_SIZE)
            => heap'[t.ref].queue = Append(heap[t.ref].queue, t.event)]_vars

\* A connection that had a delivery skipped got a later event into its queue
\* as the first delivery of a new window.
C12_Witness ==
    \E t \in tasks :
        /\ t.pc = "enqueued"
        /\ metrics.rate_limit_hits > 0
        /\ heap[t.ref].rate_limit_window_start > 0
        /\ heap[t.ref].rate_limit_count = 1
        /\ Holds(heap[t.ref].queue, t.event)

\* The events of the emit calls made so far, in the order of the calls.
Emitted == [k \in 1..Len(emits) |-> emits[k].event]

LastOf(seq, m) == SubSeq(seq, Len(seq) - m + 1, Len(seq))

\* C13: the history never holds more than MAX_EVENT_HISTORY events and is
\* always the last min(n, MAX_EVENT_HISTORY) of the n events emitted so far,
\* in emission order; an append to a full history drops its first event only.
C13_HistoryIsRecentWindow ==
    /\ [](/\ Len(event_history) <= MAX_EVENT_HISTORY
          /\ event_history =
               LastOf(Emitted, IF Len(emits) < MAX_EVENT_HISTORY
                               THEN Len(emits) ELSE MAX_EVENT_HISTORY))
    /\ [][(Len(event_history) = MAX_EVENT_HISTORY /\ Len(emits') > Len(emits))
            => event_history' =
                  Append(Tail(event_history), emits'[Len(emits')].event)]_vars

\* More events were emitted than the history holds, and the history is full.
C13_Witness ==
    /\ Len(emits) > MAX_EVENT_HISTORY
    /\ Len(event_history) = MAX_EVENT_HISTORY
    /\ event_history[1] # event_history[2]

(***************************************************************************)
(* Concurrent emits to one subscriber of "*" that nothing drains            *)
(***************************************************************************)
NextConc ==
    \/ Tick
    \/ StreamOpen("s1", "c1", {"*"})
    \/ \E target \in Targets, kind \in Kinds, priority \in {NORMAL, CRITICAL} :
          streams["s1"].pc = "open" /\ emit(target, kind, priority)
    \/ \E t \in tasks : SendStart(t)
    \/ \E t \in tasks : SendPut(t)
    \/ \E n \in 1..MaxEmits : EmitReturn(n)

SpecConc == Init /\ [][NextConc]_vars

\* How often the event is in the queue.
Copies(queue, event) == Cardinality({k \in 1..Len(queue) : queue[k] = event})

\* C14: with a connection subscribed to "*" alone registered before the
\* first emit and never drained, once N emits have returned, N being at most
\* MAX_QUEUE_SIZE and below RATE_LIMIT_EVENTS, the connection's queue holds
\* exactly N events, each emitted event once, however the emits and their
\* deliveries interleaved.
C14_ConcurrentEmitsAllArrive ==
    ( /\ Len(emits) <= MAX_QUEUE_SIZE
      /\ Len(emits) < RATE_LIMIT_EVENTS
      /\ \A n \in 1..Len(emits) : emits[n].pc = "returned" )
    => /\ "c1" \in Registered \/ emits = <<>>
       /\ emits # <<>> =>
            /\ Len(heap[connections["c1"]].queue) = Len(emits)
            /\ \A n \in 1..Len(emits) :
                  Copies(heap[connections["c1"]].queue, emits[n].event) = 1

\* Two emits ran at the same time and the later one's event got in first.
C14_Witness ==
    /\ Len(emits) = MAX_QUEUE_SIZE
    /\ \A n \in 1..Len(emits) : emits[n].pc = "returned"
    /\ Len(heap[connections["c1"]].queue) = MAX_QUEUE_SIZE
    /\ heap[connections["c1"]].queue[1].id > heap[connections["c1"]].queue[2].id

\* C15: no connection's queue ever holds more than MAX_QUEUE_SIZE events; an
\* attempt to put into a full queue adds nothing and is over after its
\* timeout: the delivery goes on to its next attempt or is given up.
C15_QueueBoundedPutTimesOut ==
    /\ [](\A r \in Refs : Len(heap[r].queue) <= MAX_QUEUE_SIZE)
    /\ [][\A t \in tasks :
            (SendPut(t) /\ Len(heap[t.ref].queue) >= MAX_QUEUE_SIZE)
            => /\ heap'[t.ref].queue = heap[t.ref].queue
               /\ t \notin tasks'
               /\ \E u \in tasks' \ tasks :
                     \/ u.pc = "failed"
                     \/ u.pc = "put" /\ u.attempt = t.attempt + 1]_vars

\* An attempt on a full queue has timed out and the queue is still full.
C15_Witness ==
    \E t \in tasks :
        /\ t.pc = "put" /\ t.attempt > 0
        /\ Len(heap[t.ref].queue) = MAX_QUEUE_SIZE

(***************************************************************************)
(* A long-polling caller on connection "c1", with producers and a clock     *)
(***************************************************************************)
WaitTimeouts == 0..(MAX_TIMEOUT + 1)
WaitEmits == {<<"note", NORMAL>>, <<"note", CRITICAL>>, <<"task", CRITICAL>>}

NextWait ==
    \/ Tick
    \/ \E e \in WaitEmits : Len(emits) < MaxBroadcasts /\ emit(e[1], "create", e[2])
    \/ \E t \in tasks : SendStart(t)
    \/ \E t \in tasks : SendPut(t)
    \/ \E n \in 1..MaxEmits : EmitReturn(n)
    \/ \E w \in WaitIds, targets \in WaitTargets, timeout \in WaitTimeouts,
          filters \in WaitFilters :
             InTime(timeout) /\ WaitStart(w, "c1", targets, timeout, filters)
    \/ \E w \in WaitIds : WaitPull(w)
    \/ \E w \in WaitIds : WaitReturn(w)
    \/ \E w \in WaitIds : WaitCancel(w)

SpecWait == Init /\ [][NextWait]_vars

\* The scheduler runs a call whose wait is over.
LiveSpecWait == SpecWait /\ WF_vars(\E w \in WaitIds : WaitReturn(w))

\* The events of the sequence that pass the filter, in their order.
MatchedOf(filters, seq) ==
    LET Passes(e) == matches(filters, e) IN SelectSeq(seq, Passes)

Returned(wt) == wt.pc = "idle" /\ wt.status \in {"updates", "timeout"}

\* C16: a call that has returned has status "updates" exactly when one of
\* the events it pulled passed its filter, and then its events are the pulled
\* events that passed, in pull order, and last_event_id is the id of the last
\* of them; it has status "timeout", with no events, exactly when none passed.
C16_OutcomeReflectsMatches ==
    \A w \in WaitIds :
        Returned(waits[w]) =>
            LET matched == MatchedOf(waits[w].filters, waits[w].pulled)
            IN /\ waits[w].status = "updates" <=> matched # <<>>
               /\ waits[w].status = "timeout" <=> matched = <<>>
               /\ waits[w].events = matched
               /\ waits[w].status = "updates" =>
                     waits[w].last_event_id = matched[Len(matched)].id

\* A call returned "updates" after pulling an event that passed its filter
\* and one that did not.
C16_Witness ==
    \E w \in WaitIds :
        /\ Returned(waits[w]) /\ waits[w].status = "updates"
        /\ Len(waits[w].pulled) > Len(waits[w].events)
        /\ waits[w].last_event_id # waits[w].pulled[Len(waits[w].pulled)].id

\* C17: a pull, before the deadline, of a critical event that passes the
\* filter ends the call at once with status "updates" and the events matched
\* so far followed by that event, and takes nothing else out of the queue; a
\* pull of a critical event that does not pass the filter leaves the call
\* waiting with what it had.
C17_MatchingCriticalEndsWait ==
    [][\A w \in WaitIds :
          LET q == heap[waits[w].ref].queue
          IN (WaitPull(w) /\ Head(q).priority = CRITICAL)
             => IF matches(waits[w].filters, Head(q))
                THEN /\ now < waits[w].deadline
                     /\ waits'[w].pc = "idle"
                     /\ waits'[w].status = "updates"
                     /\ waits'[w].events = Append(waits[w].events, Head(q))
                     /\ connections'[waits[w].conn_id] = waits[w].ref
                           => heap'[waits[w].ref].queue = Tail(q)
                ELSE /\ waits'[w].pc = "wait"
                     /\ waits'[w].events = waits[w].events
                     /\ waits'[w].deadline = waits[w].deadline]_vars

\* A call returned before its deadline with an earlier event and the
\* critical one, and an event is still in the queue behind them.
C17_Witness ==
    \E w \in WaitIds :
        /\ Returned(waits[w]) /\ now < waits[w].deadline
        /\ Len(waits[w].events) >= 2
        /\ waits[w].events[1].priority # CRITICAL
        /\ waits[w].events[Len(waits[w].events)].priority = CRITICAL
        /\ waits[w].conn_id \in Registered
        /\ heap[connections[waits[w].conn_id]].queue # <<>>

\* C18: the deadline of a call is min(timeout, MAX_TIMEOUT) after its
\* start; a call that returns without a matching critical event among its
\* events returns at or after the deadline, whether or not it has collected
\* events; and every call that is still waiting when its deadline has come
\* ends.
C18_ReturnsAtDeadline ==
    /\ [][\A w \in WaitIds, id \in ConnIds, targets \in WaitTargets,
             timeout \in WaitTimeouts, filters \in WaitFilters :
            (WaitStart(w, id, targets, timeout, filters) /\ waits'[w].pc = "wait")
            => waits'[w].deadline =
                  now + (IF timeout > MAX_TIMEOUT THEN MAX_TIMEOUT ELSE timeout)]_vars
    /\ [][\A w \in WaitIds :
            ( /\ waits[w].pc = "wait" /\ Returned(waits'[w])
              /\ \A k \in 1..Len(waits'[w].events) :
                    waits'[w].events[k].priority # CRITICAL )
            => now >= waits[w].deadline]_vars
    /\ \A w \in WaitIds :
          (waits[w].pc = "wait" /\ now >= waits[w].deadline)
              ~> (waits[w].pc = "idle")

\* A call that had collected a non-critical event returned at its deadline,
\* not before.
C18_Witness ==
    \E w \in WaitIds :
        /\ Returned(waits[w]) /\ waits[w].status = "updates"
        /\ \A k \in 1..Len(waits[w].events) : waits[w].events[k].priority # CRITICAL
        /\ waits[w].deadline > 0
        /\ now >= waits[w].deadline

\* The channels wait_for_updates is to add for the targets.
ChannelsFor(targets) ==
    IF Len(targets) = 0
    THEN {"*"}
    ELSE UNION {{targets[k] \o ":*", "*:" \o targets[k]} : k \in 1..Len(targets)}

\* C20: the start of a call leaves the connection subscribed to what it was
\* subscribed to before (nothing, for a connection the call creates) plus
\* "{target}:*" and "*:{target}" for each target, or "*" without targets; the
\* rest of the call changes no subscription of a connection that stays.
C20_SubscriptionsOnlyGrow ==
    /\ [][\A w \in WaitIds, id \in ConnIds, targets \in WaitTargets,
             timeout \in WaitTimeouts, filters \in WaitFilters :
            (WaitStart(w, id, targets, timeout, filters) /\ waits'[w].pc = "wait")
            => heap'[waits'[w].ref].subscriptions =
                  (IF id \in Registered
                   THEN heap[connections[id]].subscriptions ELSE {})
                  \cup ChannelsFor(targets)]_vars
    /\ [][\A w \in WaitIds :
            (WaitPull(w) \/ WaitReturn(w) \/ WaitCancel(w))
            => \A i \in Registered' :
                  /\ connections'[i] = connections[i]
                  /\ heap'[connections[i]].subscriptions
                        = heap[connections[i]].subscriptions]_vars

\* After a call with a target and a call without, the connection has the
\* channels of both.
C20_Witness ==
    /\ "c1" \in Registered
    /\ heap[connections["c1"]].subscriptions = {"note:*", "*:note", "*"}
    /\ waits["w1"].pc = "wait"

(***************************************************************************)
(* A long-polling caller on a connection that an adapter creates, marked    *)
(* temporary or not, and may remove                                         *)
(***************************************************************************)
NextTemp ==
    \/ Tick
    \/ \E temp \in BOOLEAN : create_connection("c1", temp)
    \/ remove_connection("c1")
    \/ \E priority \in {NORMAL, CRITICAL} :
          emits = <<>> /\ emit("note", "create", priority)
    \/ \E t \in tasks : SendStart(t)
    \/ \E t \in tasks : SendPut(t)
    \/ \E n \in 1..MaxEmits : EmitReturn(n)
    \/ \E w \in WaitIds, timeout \in WaitTimeouts :
          InTime(timeout) /\ WaitStart(w, "c1", <<>>, timeout, DefaultFilter)
    \/ \E w \in WaitIds : WaitPull(w)
    \/ \E w \in WaitIds : WaitReturn(w)
    \/ \E w \in WaitIds : WaitCancel(w)
    \/ \E w \in WaitIds : WaitError(w)

SpecTemp == Init /\ [][NextTemp]_vars

\* C19: whenever a call ends, by returning "updates" or "timeout" or by the
\* cancellation raised in its wait, a connection object it used that is marked
\* temporary is registered under no id afterwards, and its id is free; when
\* the object is not marked temporary the call's end leaves the registry as
\* it is.
C19_TemporaryRemovedOnEveryExit ==
    [][\A w \in WaitIds :
          (waits[w].pc = "wait" /\ waits'[w].pc = "idle")
          => IF heap[waits[w].ref].temporary
             THEN /\ waits[w].conn_id \notin Registered'
                  /\ \A i \in ConnIds : connections'[i] # waits[w].ref
             ELSE connections' = connections]_vars

\* A call on a connection created as temporary has returned with events and
\* the id is no longer registered, with no remove_connection call since the
\* create.
C19_Witness ==
    \E w \in WaitIds :
        /\ Returned(waits[w]) /\ waits[w].status = "updates"
        /\ waits[w].conn_id = "c1" /\ "c1" \notin Registered
        /\ ret.op = "create" /\ ret.result = "ok"

(***************************************************************************)
(* Catch-up sync over a history that fills, evicts and ages                *)
(***************************************************************************)
\* The clock runs until an event of the first second has passed its ttl.
MaxAge == MaxTime + EVENT_TTL

SyncIds == NoSyncId .. MaxEmits

NextSync ==
    \/ Advance(MaxAge)
    \/ \E target \in Targets, priority \in {NORMAL, CRITICAL} :
          emit(target, "create", priority)
    \/ \E last_sync_id \in SyncIds : sync_changes(last_sync_id)

SpecSync == Init /\ [][NextSync]_vars

\* Past its ttl at the reading t of the clock, as the specification words it.
PastTtl(event, t) == t - event.timestamp > event.ttl

\* The events of seq that are not past their ttl now, in the order of seq.
Fresh(seq) == SelectSeq(seq, LAMBDA e : ~PastTtl(e, now))

\* The position of the event with this id in the history, 0 when absent.
PositionOf(id) ==
    IF \E k \in 1..Len(event_history) : event_history[k].id = id
    THEN CHOOSE k \in 1..Len(event_history) : event_history[k].id = id
    ELSE 0

\* C22: a sync call without last_sync_id returns every event of the history
\* that is not past its ttl, in insertion order; a call whose last_sync_id is
\* the id of an event in the history returns the events inserted after it that
\* are not past their ttl, in insertion order, and not that event;
\* next_sync_id is the id of the last returned event, or last_sync_id when
\* nothing is returned.
C22_SyncReturnsEventsAfterPoint ==
    [][\A last_sync_id \in SyncIds :
          sync_changes(last_sync_id)
          => /\ last_sync_id = NoSyncId => ret'.events = Fresh(event_history)
             /\ PositionOf(last_sync_id) > 0
                => /\ ret'.events =
                        Fresh(SubSeq(event_history, PositionOf(last_sync_id) + 1,
                                     Len(event_history)))
                   /\ \A k \in 1..Len(ret'.events) :
                         ret'.events[k].id # last_sync_id
             /\ ret'.next_sync_id =
                   IF ret'.events # <<>>
                   THEN ret'.events[Len(ret'.events)].id
                   ELSE last_sync_id]_vars

\* A call from the id of an event that the history still holds returned a
\* later event and left out one that is past its ttl.
C22_Witness ==
    /\ ret.op = "sync" /\ ret.timestamp = now
    /\ PositionOf(ret.last_sync_id) = 1
    /\ Len(event_history) = MAX_EVENT_HISTORY
    /\ Len(ret.events) = 1
    /\ PastTtl(event_history[1], now)
    /\ ret.next_sync_id = event_history[MAX_EVENT_HISTORY].id

\* C23: once MAX_EVENT_HISTORY + 1 events have been emitted, none of them past
\* its ttl, a sync call from the id of the first emitted event returns the
\* events emitted after it, in emission order.
C23_SyncFromEvictedPoint ==
    [][(/\ Len(emits) = MAX_EVENT_HISTORY + 1
        /\ \A k \in 1..Len(emits) : ~PastTtl(emits[k].event, now)
        /\ sync_changes(1))
       => ret'.events = SubSeq(Emitted, 2, Len(emits))]_vars

(***************************************************************************)
(* A long-polling caller and a sync caller over events that age            *)
(***************************************************************************)
NextLate ==
    \/ Advance(MaxAge)
    \/ create_connection("c1", FALSE)
    \/ \E priority \in {NORMAL, CRITICAL} :
          Len(emits) < MaxBroadcasts /\ emit("note", "create", priority)
    \/ \E t \in tasks : SendStart(t)
    \/ \E t \in tasks : SendPut(t)
    \/ \E n \in 1..MaxEmits : EmitReturn(n)
    \/ \E w \in WaitIds, timeout \in 0..MAX_TIMEOUT :
          WaitStart(w, "c1", <<"note">>, timeout, DefaultFilter)
    \/ \E w \in WaitIds : WaitPull(w)
    \/ \E w \in WaitIds : WaitReturn(w)
    \/ \E last_sync_id \in {NoSyncId, 1} : sync_changes(last_sync_id)

SpecLate == Init /\ [][NextLate]_vars

\* C24: no event returned by a sync call is past its ttl at the time of the
\* call, and a call of wait_for_updates whose filter excludes expired events
\* does not collect an event that is past its ttl when the call gets it from
\* the inbox.
C24_ExpiredNeverReturned ==
    [][/\ \A last_sync_id \in SyncIds :
             sync_changes(last_sync_id)
             => \A k \in 1..Len(ret'.events) : ~PastTtl(ret'.events[k], now)
       /\ \A w \in WaitIds :
             (/\ waits[w].pc = "wait"
              /\ waits[w].filters.exclude_expired
              /\ Len(waits'[w].pulled) = Len(waits[w].pulled) + 1
              /\ PastTtl(waits'[w].pulled[Len(waits'[w].pulled)], now))
             => waits'[w].events = waits[w].events]_vars

\* A call with the default filter took an event past its ttl from the inbox
\* and returned another one without it, and a sync call then returned fewer
\* events than the history holds.
C24_Witness ==
    /\ \E w \in WaitIds :
          /\ Returned(waits[w]) /\ waits[w].filters = DefaultFilter
          /\ waits[w].status = "updates"
          /\ Len(waits[w].pulled) > Len(waits[w].events)
          /\ PastTtl(waits[w].pulled[1], now)
    /\ ret.op = "sync" /\ ret.timestamp = now /\ ret.last_sync_id = NoSyncId
    /\ Len(ret.events) < Len(event_history)

(***************************************************************************)
(* Event.is_expired and EventFilter.matches as functions of their inputs   *)
(***************************************************************************)
\* Events as the dataclass accepts them: any ttl that is not None is kept.
TestEvents ==
    [id : {1}, target : {"note", "task"}, type : {"create", "update"},
     priority : {LOW, CRITICAL}, source : {"ui", "api"},
     correlation_id : {"", "k"}, timestamp : 0..MaxTime, ttl : 0..EVENT_TTL]

TestFilters ==
    [types : {{}, {"update"}}, sources : {{}, {"api"}}, targets : {{}, {"note"}},
     priority_min : {LOW, HIGH}, exclude_expired : BOOLEAN,
     since : {NoSince, UuidSince, 0, MaxTime}, correlation_id : {"", "k"}]

\* A manager as constructed, at any reading of the clock, and the arguments
\* of the call to come.
InitPure ==
    /\ now \in 0..MaxAge
    /\ ret \in [op : {"input"}, result : {"None"}, count : {0},
                filters : TestFilters, event : TestEvents]
    /\ connections = [i \in ConnIds |-> NoRef]
    /\ heap = [r \in Refs |-> Blank]
    /\ event_history = <<>>
    /\ metrics = EventMetrics
    /\ emits = <<>>
    /\ tasks = {}
    /\ streams = [s \in StreamIds |-> [pc |-> "idle", conn_id |-> "", ref |-> NoRef]]
    /\ waits = [w \in WaitIds |-> IdleWait]
    /\ cleanup = NoCleanup

\* event.is_expired()
CallIsExpired ==
    /\ ret.op = "input"
    /\ ret' = [op |-> "is_expired", result |-> "bool", count |-> 0,
               filters |-> ret.filters, event |-> ret.event,
               value |-> is_expired(ret.event)]
    /\ UNCHANGED <<now, cleanup, connections, heap, emitVars, userVars>>

\* filters.matches(event)
CallMatches ==
    /\ ret.op = "input"
    /\ ret' = [op |-> "matches", result |-> "bool", count |-> 0,
               filters |-> ret.filters, event |-> ret.event,
               value |-> matches(ret.filters, ret.event)]
    /\ UNCHANGED <<now, cleanup, connections, heap, emitVars, userVars>>

NextPure == CallIsExpired \/ CallMatches

SpecPure == InitPure /\ [][NextPure]_vars

\* C25: is_expired answers true exactly when now - timestamp > ttl, for every
\* ttl an event carries, 0 included.
C25_ExpiredIffPastTtl ==
    ret.op = "is_expired" => (ret.value <=> PastTtl(ret.event, now))

\* C26: matches answers true exactly when every criterion of the filter that
\* is present holds: the type, the source and the target are in their sets,
\* the priority is at least priority_min, the correlation id is equal, the
\* timestamp is not earlier than since, and the event is not past its ttl when
\* exclude_expired is set.  A since that is an event id is left aside.
C26_MatchesIffAllCriteria ==
    (ret.op = "matches" /\ ret.filters.since # UuidSince)
    => (ret.value <=>
          /\ ret.filters.types # {} => ret.event.type \in ret.filters.types
          /\ ret.filters.sources # {} => ret.event.source \in ret.filters.sources
          /\ ret.filters.targets # {} => ret.event.target \in ret.filters.targets
          /\ ret.event.priority >= ret.filters.priority_min
          /\ ret.filters.correlation_id # ""
                => ret.event.correlation_id = ret.filters.correlation_id
          /\ ret.filters.since # NoSince
                => ret.event.timestamp >= ret.filters.since
          /\ ret.filters.exclude_expired => ~PastTtl(ret.event, now))

\* C27: when the loop of a stream that created its connection ends, the
\* connection object it created is registered under no id afterwards and the
\* stream's connection id is free.
C27_StreamEndRemovesConnection ==
    [][\A s \in StreamIds :
          (streams[s].pc = "open" /\ streams'[s].pc = "closed")
          => /\ streams[s].conn_id \notin Registered'
             /\ \A i \in ConnIds : connections'[i] # streams[s].ref]_vars

\* Every stream that was opened has ended, and a connection that received an
\* event through its stream is no longer registered.
C27_Witness ==
    /\ \E s \in StreamIds : streams[s].pc = "closed"
    /\ \A s \in StreamIds : streams[s].pc # "open"
    /\ \E t \in tasks : t.pc = "enqueued" /\ t.conn_id \notin Registered

\* C28: when the task of a call is cancelled while it is suspended in the
\* inbox pull, the call ends with the outcome "timeout" or "error" and is no
\* longer waiting.
C28_CancellationBecomesOutcome ==
    [][\A w \in WaitIds :
          WaitCancel(w)
          => /\ waits'[w].status \in {"timeout", "error"}
             /\ waits'[w].pc # "wait"]_vars

\* C29: when the inbox pull of a call fails with an error that is not a
\* timeout, the call ends with the outcome "error" and that outcome carries
\* none of the events the call had collected.
C29_PullErrorIsErrorOutcome ==
    [][\A w \in WaitIds :
          WaitError(w)
          => /\ waits'[w].pc = "idle"
             /\ waits'[w].status = "error"
             /\ waits'[w].events = <<>>]_vars

\* A call that had taken an event from the inbox and kept it ended with the
\* outcome "error" and no events.
C29_Witness ==
    \E w \in WaitIds :
        /\ waits[w].pc = "idle" /\ waits[w].status = "error"
        /\ waits[w].pulled # <<>>
        /\ matches(waits[w].filters, waits[w].pulled[1])
        /\ waits[w].events = <<>>

(***************************************************************************)
(* One subscriber whose inbox fills, under first-in first-out scheduling   *)
(* of the delivery tasks                                                   *)
(***************************************************************************)
NextFifo ==
    \/ Tick
    \/ StreamOpen("s1", "c1", {"note:*", "*"})
    \/ \E target \in Targets : emit(target, "create", NORMAL)
    \/ \E t \in tasks : FifoStart(t)
    \/ \E t \in tasks : FifoPut(t)
    \/ \E t \in tasks : SendWake(t)
    \/ \E t \in tasks : SendTimeout(t)
    \/ \E n \in 1..MaxEmits : EmitReturn(n)
    \/ StreamPull("s1")
    \/ \E w \in WaitIds : WaitStart(w, "c1", <<>>, MAX_TIMEOUT, DefaultFilter)
    \/ \E w \in WaitIds : WaitPull(w)
    \/ \E w \in WaitIds : WaitReturn(w)

SpecFifo == Init /\ [][NextFifo]_vars

\* An inbox changes only by an event added at its end or by its first event
\* taken, and a call of wait_for_updates that takes an event takes the first
\* of its connection's inbox.
InboxFifo ==
    /\ \A r \in Refs :
          LET q == heap[r].queue
              after == heap'[r].queue
          IN \/ after = q
             \/ Len(after) = Len(q) + 1 /\ SubSeq(after, 1, Len(q)) = q
             \/ q # <<>> /\ after = Tail(q)
    /\ \A w \in WaitIds :
          (waits[w].pc = "wait"
             /\ Len(waits'[w].pulled) = Len(waits[w].pulled) + 1)
          => /\ waits'[w].pulled =
                   Append(waits[w].pulled, Head(heap[waits[w].ref].queue))
             /\ heap'[waits[w].ref].queue = Tail(heap[waits[w].ref].queue)

\* The delivery task t puts its event into the inbox behind an event that was
\* emitted later.
Overtaken(t) ==
    /\ t.pc \in {"put", "blocked"}
    /\ t \notin tasks'
    /\ [t EXCEPT !.pc = "enqueued", !.attempt = 0] \in tasks'
    /\ \E k \in 1..Len(heap[t.ref].queue) : heap[t.ref].queue[k].id > t.event.id

\* C30 as stated: the inbox is first-in first-out, and an event is enqueued
\* behind a later-emitted one only when its delivery was retried.
C30_FifoExceptRetries ==
    [][/\ InboxFifo
       /\ \A t \in tasks : Overtaken(t) => t.attempt > 0]_vars

\* C30: the inbox is first-in first-out, and an event is enqueued behind a
\* later-emitted one only when its delivery met a full inbox: its put was
\* suspended, or it timed out and was retried.
C30_FifoExceptFullInbox ==
    [][/\ InboxFifo
       /\ \A t \in tasks : Overtaken(t) => (t.pc = "blocked" \/ t.attempt > 0)]_vars

\* A call took an event from an inbox that holds a later-emitted event in
\* front of an earlier one.
C30_Witness ==
    \E w \in WaitIds :
        /\ waits[w].pc = "wait" /\ waits[w].pulled # <<>>
        /\ LET q == heap[waits[w].ref].queue
           IN Len(q) = 2 /\ q[1].id > q[2].id

(***************************************************************************)
(* Scenario A: one call of wait_for_updates and one emit, started at the   *)
(* same time on a connection that exists                                   *)
(***************************************************************************)
\* Both calls have started.
BothStarted == emits # <<>> /\ \E w \in WaitIds : waits[w].status # "none" \/ waits[w].pc = "wait"

NextScenarioA ==
    \/ create_connection("c1", FALSE)
    \/ BothStarted /\ Tick
    \/ \E priority \in {NORMAL, CRITICAL} :
          /\ emits = <<>> /\ "c1" \in Registered
          /\ emit("note", "create", priority)
    \/ \E t \in tasks : SendStart(t)
    \/ \E t \in tasks : SendPut(t)
    \/ \E n \in 1..MaxEmits : EmitReturn(n)
    \/ \E w \in WaitIds, timeout \in 1..MAX_TIMEOUT + 1 :
          /\ waits[w].status = "none" /\ "c1" \in Registered
          /\ InTime(timeout)
          /\ WaitStart(w, "c1", <<"note">>, timeout, DefaultFilter)
    \/ \E w \in WaitIds : WaitPull(w)
    \/ \E w \in WaitIds : WaitReturn(w)

SpecScenarioA == Init /\ [][NextScenarioA]_vars

\* C21 as stated: the call returns "updates" with exactly the emitted event
\* and its id, whatever the order of the steps of the two calls.
C21_AlwaysUpdates ==
    \A w \in WaitIds :
        Returned(waits[w])
        => /\ waits[w].status = "updates"
           /\ waits[w].events = <<emits[1].event>>
           /\ waits[w].last_event_id = emits[1].event.id

\* No delivery to "c1" was started: emit scanned the registry before the call
\* subscribed.
ScannedFirst ==
    /\ emits # <<>> /\ TasksOf(1) = {}
    /\ heap[connections["c1"]].rate_limit_count = 0

\* C21: the call returns "updates" with exactly the emitted event and its id
\* when the event reached it before its deadline, and "timeout" with no
\* events otherwise; the event never reaches it when emit scanned the registry
\* before the call subscribed.
C21_UpdatesWhenSubscribedFirst ==
    \A w \in WaitIds :
        Returned(waits[w])
        => /\ waits[w].pulled # <<>>
                => /\ waits[w].status = "updates"
                   /\ waits[w].events = <<emits[1].event>>
                   /\ waits[w].last_event_id = emits[1].event.id
           /\ waits[w].pulled = <<>>
                => waits[w].status = "timeout" /\ waits[w].events = <<>>
           /\ ScannedFirst => waits[w].pulled = <<>>

\* The call subscribed first and returned the event of the emit, which has
\* returned too.
C21_Witness ==
    \E w \in WaitIds :
        /\ Returned(waits[w]) /\ waits[w].status = "updates"
        /\ waits[w].events = <<emits[1].event>>
        /\ emits[1].pc = "returned" /\ emits[1].event.target = "note"

(***************************************************************************)
(* A stream asked for an id that is already registered                     *)
(***************************************************************************)
\* The stream s ends after its create_connection raised.
FailedStreamEnds(s) == streams[s].pc = "failed" /\ streams'[s].pc = "closed"

\* C34 as stated: a stream whose creation failed leaves the registry as it
\* is when it ends, so the connection an earlier stream registered under the
\* same id stays registered and goes on receiving.
C34_FailedStreamKeepsEarlier ==
    [][\A s \in StreamIds :
          FailedStreamEnds(s)
          => connections'[streams[s].conn_id] = connections[streams[s].conn_id]]_vars

(***************************************************************************)
(* The connection a wait_for_updates call creates for itself               *)
(***************************************************************************)
\* C36 as stated: a connection that wait_for_updates created because the id
\* was absent is removed when that call completes.  Under SpecWait the calls
\* are the only creators of connections and follow one another, so no
\* connection is registered while no call is in progress.
C36_SelfCreatedIsRemoved ==
    (\A w \in WaitIds : waits[w].pc = "idle") => Registered = {}

(***************************************************************************)
(* The end of a call whose id was registered again in the meantime         *)
(***************************************************************************)
\* C38 as stated: the finally clause of a call on a temporary connection
\* removes only the connection object the call waited on; a connection that
\* was registered under the same id while the call was suspended is still
\* registered after the call ends.
C38_FinallyRemovesOnlyOwn ==
    [][\A w \in WaitIds :
          (waits[w].pc = "wait" /\ waits'[w].pc = "idle"
              /\ heap[waits[w].ref].temporary)
          => \A i \in ConnIds :
                connections[i] # waits[w].ref => connections'[i] = connections[i]]_vars

(***************************************************************************)
(* The rate budget of a connection                                         *)
(***************************************************************************)
\* The deliveries counted in the window of c when a delivery starts now.
CountedInWindow(c) == IF WindowExpired(c) THEN 0 ELSE c.rate_limit_count

\* C39: rate_limit_count of a connection never exceeds RATE_LIMIT_EVENTS; a
\* delivery that is not skipped adds one to the count of its window when it
\* starts, before any queue.put, a skipped delivery leaves the count, nothing
\* but the start of a delivery changes the count of a registered connection,
\* and a delivery whose attempts all time out keeps the unit it took.
C39_RateCountIsDeliveriesInWindow ==
    /\ [](\A r \in Refs : heap[r].rate_limit_count \in 0..RATE_LIMIT_EVENTS)
    /\ [][\A t \in tasks :
            (SendStart(t) /\ t.conn_id \in Registered)
            => LET c == heap[connections[t.conn_id]]
                   d == heap'[connections[t.conn_id]]
               IN IF [t EXCEPT !.pc = "rate_limited"] \in tasks'
                  THEN d.rate_limit_count = c.rate_limit_count
                  ELSE /\ d.rate_limit_count = CountedInWindow(c) + 1
                       /\ d.queue = c.queue]_vars
    /\ [][\A i \in ConnIds :
            ( /\ i \in Registered /\ connections'[i] = connections[i]
              /\ heap'[connections[i]].rate_limit_count
                    # heap[connections[i]].rate_limit_count )
            => \E t \in tasks : t.conn_id = i /\ SendStart(t)]_vars
    /\ [][\A t \in tasks :
            (SendPut(t) /\ [t EXCEPT !.pc = "failed"] \in tasks')
            => /\ heap'[t.ref].rate_limit_count = heap[t.ref].rate_limit_count
               /\ heap[t.ref].rate_limit_count >= 1]_vars

\* A delivery gave up on a full queue and the connection's count holds the
\* unit it took: the count is at the limit with fewer events in the queue.
C39_Witness ==
    \E t \in tasks :
        /\ t.pc = "failed"
        /\ heap[t.ref].rate_limit_count = RATE_LIMIT_EVENTS
        /\ Len(heap[t.ref].queue) < RATE_LIMIT_EVENTS
        /\ metrics.rate_limit_hits = 0

(***************************************************************************)
(* A caller that chains its sync calls by the token                        *)
(***************************************************************************)
\* The token the caller passes: next_sync_id of its last call, none before
\* its first call.
Token == IF ret.op = "sync" THEN ret.next_sync_id ELSE NoSyncId

\* The caller's next call of sync_changes.
ClientSync == sync_changes(Token)

NextClient ==
    \/ Advance(MaxAge)
    \/ \E target \in Targets, priority \in {NORMAL, CRITICAL} :
          emit(target, "create", priority)
    \/ ClientSync

SpecClient == Init /\ [][NextClient]_vars

\* The emitted events the caller has not received yet and that are not past
\* their ttl: the token is the id of the last event it received.
Unseen == Fresh(SelectSeq(Emitted, LAMBDA e : e.id > Token))

\* C31 as stated, for the calls before which the history has lost none of the
\* events the caller has not received: each call of the chain returns the
\* emitted events after the last received one that are not past their ttl,
\* in emission order, so the caller gets every event once and without a gap.
C31_ChainedSyncDeliversAll ==
    [][(/\ ClientSync
        /\ \A k \in 1..Len(Unseen) : Holds(event_history, Unseen[k]))
       => ret'.events = Unseen]_vars

(***************************************************************************)
(* The metrics of emits of several types and sources                       *)
(***************************************************************************)
MetricKinds == {"create", "update"}
MetricSources == {"ui", "api"}

NextMetrics ==
    \/ StreamOpen("s1", "c1", {"note:*", "*"})
    \/ \E source \in MetricSources, kind \in MetricKinds :
          emit_from(source, "note", kind, NORMAL)
    \/ \E t \in tasks : SendStart(t)
    \/ \E t \in tasks : SendPut(t)
    \/ \E n \in 1..MaxEmits : EmitReturn(n)
    \/ StreamPull("s1")

SpecMetrics == Init /\ [][NextMetrics]_vars

\* The sum of the counts of a per-key counter.
RECURSIVE SumOf(_)
SumOf(d) ==
    IF DOMAIN d = {} THEN 0
    ELSE LET k == CHOOSE x \in DOMAIN d : TRUE
         IN d[k] + SumOf([x \in DOMAIN d \ {k} |-> d[x]])

\* The deliveries that reach the end pc in this step.
Ending(pc) == {t \in tasks' : t.pc = pc} \ tasks

ReFilters == {DefaultFilter, [DefaultFilter EXCEPT !.targets = {"task"}]}

\* The events a call took out of the queue and did not return.
NotReturned(wt) ==
    {wt.pulled[k] : k \in 1..Len(wt.pulled)} \ {wt.events[k] : k \in 1..Len(wt.events)}

\* The caller's next call: it remembers what its calls so far took out of
\* the queue without returning it.
WaitAgain(w, targets, timeout, filters) ==
    WaitStartAfter(w, "c1", targets, timeout, filters,
                   waits[w].before \cup NotReturned(waits[w]))

NextRefilter ==
    \/ Tick
    \/ \E priority \in {NORMAL, CRITICAL} :
          Len(emits) < MaxBroadcasts /\ emit("note", "create", priority)
    \/ \E t \in tasks : SendStart(t)
    \/ \E t \in tasks : SendPut(t)
    \/ \E n \in 1..MaxEmits : EmitReturn(n)
    \/ \E w \in WaitIds, targets \in WaitTargets, timeout \in 0..MAX_TIMEOUT,
          filters \in ReFilters : WaitAgain(w, targets, timeout, filters)
    \/ \E w \in WaitIds : WaitPull(w)
    \/ \E w \in WaitIds : WaitReturn(w)

SpecRefilter == Init /\ [][NextRefilter]_vars

\* C35 as stated, for the calls that return an outcome: the call returns the
\* events it pulled that pass its filter, so it takes out without returning
\* only events that fail the filter, and none of the events it returns was
\* taken out without being returned by an earlier call on the connection.
C35_PulledIsReturnedOrDroppedForGood ==
    \A w \in WaitIds :
        Returned(waits[w])
        => /\ waits[w].events = MatchedOf(waits[w].filters, waits[w].pulled)
           /\ \A k \in 1..Len(waits[w].events) :
                 waits[w].events[k] \notin waits[w].before

(***************************************************************************)
(* An attached stream, its heartbeats and the idle sweep                   *)
(***************************************************************************)
\* The idle limit of the sweep, in heartbeat intervals: heartbeat_interval
\* (30 s) is shorter than max_idle_seconds (600 s).
IdleLimit == 1
IdleHorizon == IdleLimit + 1
IdleChannels == {{"note:*"}, {"*"}}

\* The heartbeat task of the stream has emitted in the current interval.
Beaten == \E n \in 1..Len(emits) :
              emits[n].event.type = "heartbeat" /\ emits[n].event.timestamp = now

\* _heartbeat_loop after its sleep: the emit of the heartbeat event.
Heartbeat(s) ==
    /\ streams[s].pc = "open"
    /\ ~Beaten
    /\ emit_from("system", "connection", "heartbeat", LOW)

\* An interval ends: while a stream is attached its heartbeat task has emitted
\* and the deliveries of the emits are over.
IdleTick ==
    /\ (\E s \in StreamIds : streams[s].pc = "open")
          => Beaten /\ \A n \in 1..Len(emits) : emits[n].pc = "returned"
    /\ Advance(IdleHorizon)

NextIdle ==
    \/ IdleTick
    \/ \E ch \in IdleChannels : StreamOpen("s1", "c1", ch)
    \/ Heartbeat("s1")
    \/ \E t \in tasks : SendStart(t)
    \/ \E t \in tasks : SendPut(t)
    \/ \E n \in 1..MaxEmits : EmitReturn(n)
    \/ StreamPull("s1")
    \/ StreamClose("s1")
    \/ cleanup_stale_connections(IdleLimit)

SpecIdle == Init /\ [][NextIdle]_vars

\* C37 as stated: the idle sweep never removes the connection of a stream
\* that is attached and running its loop, whatever is emitted meanwhile.
C37_AttachedNeverSwept ==
    [][cleanup_stale_connections(IdleLimit)
       => \A s \in StreamIds :
             (streams[s].pc = "open" /\ connections[streams[s].conn_id] = streams[s].ref)
             => connections'[streams[s].conn_id] = streams[s].ref]_vars

(***************************************************************************)
(* Who an emit delivers to                                                 *)
(***************************************************************************)
\* The delivery t puts its event into the queue of its connection object.
Enqueues(t) == SendPut(t) /\ [t EXCEPT !.pc = "enqueued"] \in tasks'

\* C40 as stated: an emit starts deliveries only to the ids registered with a
\* subscription to one of the event's channel keys when it scans, and a
\* delivery enqueues only into a connection object that was registered with
\* that subscription at the scan.  Subscriptions are never taken back, so
\* such an object still holds the channel key of the delivery when the event
\* is enqueued.
C40_OnlyScannedSubscribersReceive ==
    /\ [][\A t \in tasks' \ tasks :
            t.pc = "start"
            => /\ t.conn_id \in Registered
               /\ Channels(t.event)[t.chan]
                     \in heap[connections[t.conn_id]].subscriptions]_vars
    /\ [][\A t \in tasks :
            Enqueues(t)
            => Channels(t.event)[t.chan] \in heap[t.ref].subscriptions]_vars

(***************************************************************************)
(* ConnectionPool.start_cleanup_task / stop_cleanup_task / _cleanup_loop   *)
(***************************************************************************)
\* The _cleanup_loop task has been created and has not ended.
Live(id) == cleanup.loops[id] \in {"new", "sleep"}

LiveLoops == {id \in LoopIds : Live(id)}

\* The id of the task asyncio.create_task makes next.
NewLoop == CHOOSE id \in LoopIds :
              /\ cleanup.loops[id] = "none"
              /\ \A k \in LoopIds : cleanup.loops[k] = "none" => id <= k

\* start_cleanup_task: a task is created only when _cleanup_task is None.
start_cleanup_task ==
    /\ IF cleanup.task = NoTask
       THEN /\ \E id \in LoopIds : cleanup.loops[id] = "none"
            /\ cleanup' = [cleanup EXCEPT !.task = NewLoop,
                                          !.loops[NewLoop] = "new"]
       ELSE UNCHANGED cleanup
    /\ ret' = [op |-> "start", result |-> "None", count |-> 0]
    /\ UNCHANGED <<now, connections, heap, emitVars, userVars>>

\* What "await task" gives for a task that ended with this pc.
Awaited(pc) == IF pc = "cancelled" THEN "CancelledError" ELSE "None"

\* except asyncio.CancelledError: pass
Swallowed(outcome) == IF outcome = "CancelledError" THEN "None" ELSE outcome

\* stop_cleanup_task up to its await: nothing to do when _cleanup_task is
\* None; else the task is cancelled and awaited.  Awaiting a task that has
\* ended does not suspend: the call goes on to set _cleanup_task to None.
stop_cleanup_task(p) ==
    /\ cleanup.awaits[p] = NoTask
    /\ IF cleanup.task = NoTask
       THEN /\ ret' = [op |-> "stop", result |-> "None", count |-> 0]
            /\ UNCHANGED cleanup
       ELSE IF Live(cleanup.task)
            THEN /\ cleanup' = [cleanup EXCEPT !.cancels = @ \cup {cleanup.task},
                                               !.awaits[p] = cleanup.task]
                 /\ UNCHANGED ret
            ELSE /\ cleanup' = [cleanup EXCEPT !.task = NoTask]
                 /\ ret' = [op |-> "stop",
                            result |-> Swallowed(Awaited(cleanup.loops[cleanup.task])),
                            count |-> 0]
    /\ UNCHANGED <<now, connections, heap, emitVars, userVars>>

\* The suspended stop_cleanup_task call p goes on after the task it awaits
\* has ended: self._cleanup_task = None, whatever it is by now.
StopAwaited(p) ==
    /\ cleanup.awaits[p] # NoTask
    /\ ~Live(cleanup.awaits[p])
    /\ cleanup' = [cleanup EXCEPT !.awaits[p] = NoTask, !.task = NoTask]
    /\ ret' = [op |-> "stop",
               result |-> Swallowed(Awaited(cleanup.loops[cleanup.awaits[p]])),
               count |-> 0]
    /\ UNCHANGED <<now, connections, heap, emitVars, userVars>>

\* The first step of a _cleanup_loop task: into asyncio.sleep.
LoopStart(id) ==
    /\ cleanup.loops[id] = "new"
    /\ id \notin cleanup.cancels
    /\ cleanup' = [cleanup EXCEPT !.loops[id] = "sleep"]
    /\ UNCHANGED <<now, connections, heap, ret, emitVars, userVars>>

\* The cancellation reaches the task: a task in its sleep catches it and
\* breaks out of the loop, a task that never ran ends cancelled.
LoopCancelled(id) ==
    /\ Live(id)
    /\ id \in cleanup.cancels
    /\ cleanup' = [cleanup EXCEPT
                     !.cancels = @ \ {id},
                     !.loops[id] = IF cleanup.loops[id] = "new"
                                   THEN "cancelled" ELSE "returned"]
    /\ UNCHANGED <<now, connections, heap, ret, emitVars, userVars>>

\* One round of a _cleanup_loop task whose sleep is over:
\* cleanup_stale_connections() with the default idle limit.
SweepRun(id) ==
    /\ cleanup.loops[id] = "sleep"
    /\ id \notin cleanup.cancels
    /\ connections' = Without(connections, Stale(IdleLimit))
    /\ UNCHANGED <<now, cleanup, ret, emitVars, userVars>>
    /\ heap' = Collect(heap)

NextSweep ==
    \/ Advance(IdleHorizon)
    \/ create_connection("c1", FALSE)
    \/ start_cleanup_task
    \/ \E p \in StopIds : stop_cleanup_task(p)
    \/ \E p \in StopIds : StopAwaited(p)
    \/ \E id \in LoopIds : LoopStart(id)
    \/ \E id \in LoopIds : LoopCancelled(id)
    \/ \E id \in LoopIds : SweepRun(id)

SpecSweep == Init /\ [][NextSweep]_vars

\* C33 as stated: whatever start and stop calls are made, at most one sweep
\* task exists at any time, a stop call returns without raising, and between
\* the return of a stop call and the next start call no sweep removes a
\* connection.
C33_OneSweepTaskStoppedByStop ==
    /\ [](Cardinality(LiveLoops) <= 1)
    /\ [](ret.op = "stop" => ret.result = "None")
    /\ [][\A id \in LoopIds :
            (ret.op = "stop" /\ SweepRun(id)) => connections' = connections]_vars

====
